---- MODULE Spec2Model ----
(***************************************************************************)
(* Goat barn door controller (V5.ino): the stepper door state machine, the *)
(* RFID access dispatcher, the barn occupancy list and the web handlers,   *)
(* as two tasks (Motor+RFID on core 1, WebServer on core 0).               *)
(*                                                                         *)
(* Spec      every function call of either task is one atomic step.       *)
(* SpecMotor the motor control functions called directly, from every      *)
(*           value of the controller's fields.                            *)
(* SpecBarn  the tracker functions called directly with arbitrary names   *)
(*           on lists up to the full capacity.                            *)
(* SpecReader rfidCheckReader and webHandleAPI called directly, from every  *)
(*           door state and from lists up to the full capacity.           *)
(* SpecAuto  Spec without the door commands of the web task, with time     *)
(*           passing while the door is held open, under fairness.         *)
(* SpecTasks the two tasks interleaved between the statements of the       *)
(*           tracker functions and of webHandleAPI, with barnDataMutex.    *)
(* SpecRace  one motorUpdate() of taskMotorAndRFID and one door command of *)
(*           taskWebServer, interleaved between their reads and writes of  *)
(*           the controller's fields.                                      *)
(***************************************************************************)
EXTENDS Integers, Sequences, FiniteSets, TLC

VARIABLES
  motorState,           \* MotorState_t motorState
  motorStateStartTime,  \* unsigned long motorStateStartTime
  manualMode,           \* bool manualMode
  totalMoves,           \* unsigned long totalMoves
  failedMoves,          \* unsigned long failedMoves
  targetPos,            \* AccelStepper motor: target position
  currentPos,           \* AccelStepper motor: current position
  lastCardStateR1,      \* bool lastCardStateR1
  lastCardStateR2,      \* bool lastCardStateR2
  barnOccupants,        \* String barnOccupants[]: the cells below barnPopulation
  barnPopulation,       \* int barnPopulation
  now,                  \* millis()
  ticks,                \* number of clock advances so far (bounded)
  rtpc,                 \* position of taskMotorAndRFID in its loop body
  calls,                \* number of direct tracker calls (SpecBarn only)
  serial,               \* the lines the last call printed on Serial
  webResponse,          \* the response a web handler has just sent (cleared by the next call)
  heldMs,               \* history: real milliseconds since MOTOR_OPEN_HOLDING was entered
  lastOp,               \* history: the function that made the last step
  lastArg,              \* history: the inputs of that call
  pre,                  \* history: the door controller's fields before that call
  mutex,                \* barnDataMutex: the task that holds it, or "free"
  webpc,                \* position of taskWebServer in the handler it runs
  rtloc,                \* rfidCheckReader and the tracker function it calls: readerNumber, goat, j
  webloc,               \* webHandleAPI: i, json
  settled,              \* history: the occupants when the tracker last gave the mutex back
  raceStart,            \* history: the program state at the start of the run (SpecRace only)
  presentRun,           \* history: per reader, the detections and open requests made since its last poll that read no card
  beforeRemove          \* history: the occupants before a remove that the last call, an add of the same name, followed at once

vars == << motorState, motorStateStartTime, manualMode, totalMoves, failedMoves,
           targetPos, currentPos, lastCardStateR1, lastCardStateR2,
           barnOccupants, barnPopulation, now, ticks, rtpc, calls,
           serial, webResponse, heldMs, lastOp, lastArg, pre,
           mutex, webpc, rtloc, webloc, settled, raceStart, presentRun,
           beforeRemove >>

\* the variables of the statement-level tasks
taskvars == << mutex, webpc, rtloc, webloc, settled >>

(***************************************************************************)
(* Program constants                                                       *)
(***************************************************************************)
DOOR_HOLD_TIME_MS == 3000
POS_CLOSED == 0
POS_OPEN == 1400
MAX_GOATS_IN_BARN == 10

(***************************************************************************)
(* unsigned long: 32 bits on the ESP32, held as two 16-bit halves so that  *)
(* the arithmetic of millis() wraps exactly as it does on the target.      *)
(***************************************************************************)
HALF == 2^16

ULong(n) == [hi |-> (n \div HALF) % HALF, lo |-> n % HALF]

ULongAdd(a, n) ==
  LET l == a.lo + n
  IN  [hi |-> (a.hi + (l \div HALF)) % HALF, lo |-> l % HALF]

\* a - b in unsigned 32-bit arithmetic (wraps below zero)
ULongSub(a, b) ==
  LET l == a.lo - b.lo
      borrow == IF l < 0 THEN 1 ELSE 0
  IN  [hi |-> (a.hi - b.hi - borrow) % HALF, lo |-> l % HALF]

\* a >= n for an unsigned long a and a constant 0 <= n < 2^16
ULongGeq(a, n) == a.hi > 0 \/ a.lo >= n

MotorState_t == { "MOTOR_IDLE", "MOTOR_OPENING", "MOTOR_OPEN_HOLDING",
                  "MOTOR_CLOSING", "MOTOR_MANUAL_OPEN", "MOTOR_ERROR" }

\* knownGoats[]: name and 4-byte uid of each record, in table order
knownGoats == << [name |-> "Bron",    uid |-> << 100, 62, 50, 3 >>],
                 [name |-> "TFrance", uid |-> << 185, 114, 169, 17 >>],
                 [name |-> "BigO",    uid |-> << 249, 239, 97, 18 >> ] >>

NUM_KNOWN_GOATS == Len(knownGoats)

(***************************************************************************)
(* Bounds of the model                                                     *)
(***************************************************************************)
\* steps the stepper can advance in one motor.run() slice of the model
RunStep == 700
\* milliseconds that pass in one clock advance
TickMs == 1500
\* clock advances explored
MaxTicks == 3
\* accepted open commands explored (cap of totalMoves)
MaxMoves == 2
\* direct tracker calls explored in SpecBarn
MaxCalls == 3

\* uids presented to the readers: Bron, TFrance, a 7-byte uid whose first four
\* bytes are Bron's, an unregistered 4-byte uid, and a uid shorter than 4 bytes
CardUids == { << 100, 62, 50, 3 >>,
              << 185, 114, 169, 17 >>,
              << 100, 62, 50, 3, 1, 2, 3 >>,
              << 222, 173, 190, 239 >>,
              << 100, 62, 50 >> }

\* names handed to the tracker in SpecBarn: one more than the capacity
TrackerNames == << "Bron", "TFrance", "BigO", "UNKNOWN", "G05", "G06",
                   "G07", "G08", "G09", "G10", "G11" >>

\* millis() at the start of a run: just after boot, or shortly before the
\* 32-bit counter wraps (49.7 days of uptime with the door never used)
BootClocks == { ULong(0), [hi |-> HALF - 1, lo |-> HALF - 2000] }

(***************************************************************************)
(* The program state as a record; every function of the sketch is an       *)
(* operator from the state before the call to the state after it.          *)
(***************************************************************************)
Cur == [ motorState          |-> motorState,
         motorStateStartTime |-> motorStateStartTime,
         manualMode          |-> manualMode,
         totalMoves          |-> totalMoves,
         failedMoves         |-> failedMoves,
         targetPos           |-> targetPos,
         currentPos          |-> currentPos,
         lastCardStateR1     |-> lastCardStateR1,
         lastCardStateR2     |-> lastCardStateR2,
         barnOccupants       |-> barnOccupants,
         barnPopulation      |-> barnPopulation,
         serial              |-> << >> ]

\* Serial.println / Serial.printf: the line's fixed text, without its values
Log(s, line) == [s EXCEPT !.serial = Append(@, line)]

\* the door controller's fields and the occupants, as the history keeps them
Pre(s) == [ motorState     |-> s.motorState,
            manualMode     |-> s.manualMode,
            targetPos      |-> s.targetPos,
            totalMoves     |-> s.totalMoves,
            failedMoves    |-> s.failedMoves,
            barnOccupants  |-> s.barnOccupants,
            barnPopulation |-> s.barnPopulation ]

(***************************************************************************)
(* AccelStepper, as the sketch uses it                                     *)
(***************************************************************************)
\* motor.moveTo(p)
moveTo(s, p) == [s EXCEPT !.targetPos = p]

\* motor.distanceToGo()
distanceToGo(s) == s.targetPos - s.currentPos

\* motor.run(): advances the position toward the target by at most d steps
run(s, d) ==
  LET dist == distanceToGo(s)
  IN  IF dist > 0
        THEN [s EXCEPT !.currentPos = @ + (IF d < dist THEN d ELSE dist)]
        ELSE IF dist < 0
          THEN [s EXCEPT !.currentPos = @ - (IF d < -dist THEN d ELSE -dist)]
          ELSE s

(***************************************************************************)
(* Motor control functions                                                 *)
(***************************************************************************)
\* motorOpenDoor with the busy test written for the two opening states only:
\* an open is accepted while the door is closing
MutOpenWhileClosing(s, t) ==
  IF s.motorState = "MOTOR_OPENING" \/ s.motorState = "MOTOR_OPEN_HOLDING"
       \/ s.motorState = "MOTOR_ERROR"
    THEN Log(s, "[MOTOR] Busy - command ignored")
    ELSE [moveTo(Log(s, "[MOTOR] Opening door..."), POS_OPEN)
            EXCEPT !.motorState = "MOTOR_OPENING",
                   !.motorStateStartTime = t,
                   !.totalMoves = @ + 1]

\* motorOpenDoor without totalMoves++
MutOpenNotCounted(s, t) ==
  IF s.motorState # "MOTOR_IDLE" /\ s.motorState # "MOTOR_MANUAL_OPEN"
    THEN Log(s, "[MOTOR] Busy - command ignored")
    ELSE [moveTo(Log(s, "[MOTOR] Opening door..."), POS_OPEN)
            EXCEPT !.motorState = "MOTOR_OPENING",
                   !.motorStateStartTime = t]

\* motorOpenDoor that also accepts an open while already opening
MutOpenCollapses(s, t) ==
  IF s.motorState # "MOTOR_IDLE" /\ s.motorState # "MOTOR_MANUAL_OPEN"
       /\ s.motorState # "MOTOR_OPENING"
    THEN Log(s, "[MOTOR] Busy - command ignored")
    ELSE [moveTo(Log(s, "[MOTOR] Opening door..."), POS_OPEN)
            EXCEPT !.motorState = "MOTOR_OPENING",
                   !.motorStateStartTime = t,
                   !.totalMoves = @ + 1]

\* void motorOpenDoor(), called at millis() = t
motorOpenDoor(s, t) ==
  IF s.motorState # "MOTOR_IDLE" /\ s.motorState # "MOTOR_MANUAL_OPEN"
    THEN Log(s, "[MOTOR] Busy - command ignored")
    ELSE [moveTo(Log(s, "[MOTOR] Opening door..."), POS_OPEN)
            EXCEPT !.motorState = "MOTOR_OPENING",
                   !.motorStateStartTime = t,
                   !.totalMoves = @ + 1]

\* motorCloseDoor without manualMode = false
MutCloseKeepsManual(s, t) ==
  IF s.motorState = "MOTOR_IDLE"
    THEN Log(s, "[MOTOR] Already closed")
    ELSE [moveTo(Log(s, "[MOTOR] Closing door (manual)..."), POS_CLOSED)
            EXCEPT !.motorState = "MOTOR_CLOSING"]

\* void motorCloseDoor()
motorCloseDoor(s, t) ==
  IF s.motorState = "MOTOR_IDLE"
    THEN Log(s, "[MOTOR] Already closed")
    ELSE [moveTo(Log(s, "[MOTOR] Closing door (manual)..."), POS_CLOSED)
            EXCEPT !.motorState = "MOTOR_CLOSING",
                   !.manualMode = FALSE]

\* void motorManualOpen()
motorManualOpen(s, t) ==
  motorOpenDoor([Log(s, "[MOTOR] Manual OPEN command") EXCEPT !.manualMode = TRUE], t)

\* void motorManualClose()
motorManualClose(s, t) ==
  motorCloseDoor(Log(s, "[MOTOR] Manual CLOSE command"), t)

\* case MOTOR_OPENING that stays in MOTOR_OPENING after a failed move
MutOpeningFailureStays(r, t) ==
  IF distanceToGo(r) = 0
    THEN LET o == Log(r, "[MOTOR] Door OPEN")
         IN  IF o.currentPos # POS_OPEN
               THEN [Log(o, "[MOTOR] Warning: Expected POS_OPEN")
                       EXCEPT !.failedMoves = @ + 1]
               ELSE IF o.manualMode
                      THEN Log([o EXCEPT !.motorState = "MOTOR_MANUAL_OPEN"],
                               "[MOTOR] Manual mode - door stays open")
                      ELSE [o EXCEPT !.motorState = "MOTOR_OPEN_HOLDING",
                                     !.motorStateStartTime = t]
    ELSE r

\* case MOTOR_OPENING without the distanceToGo() test
MutOpeningNoArrivalTest(r, t) ==
  IF r.manualMode
    THEN Log([r EXCEPT !.motorState = "MOTOR_MANUAL_OPEN"],
             "[MOTOR] Manual mode - door stays open")
    ELSE [r EXCEPT !.motorState = "MOTOR_OPEN_HOLDING",
                   !.motorStateStartTime = t]

\* motorUpdate(), case MOTOR_OPENING
motorUpdateOpening(r, t) ==
  IF distanceToGo(r) = 0
    THEN LET o == Log(r, "[MOTOR] Door OPEN")
             f == IF o.currentPos # POS_OPEN
                    THEN [Log(o, "[MOTOR] Warning: Expected POS_OPEN")
                            EXCEPT !.failedMoves = @ + 1]
                    ELSE o
         IN  IF f.manualMode
               THEN Log([f EXCEPT !.motorState = "MOTOR_MANUAL_OPEN"],
                        "[MOTOR] Manual mode - door stays open")
               ELSE [f EXCEPT !.motorState = "MOTOR_OPEN_HOLDING",
                              !.motorStateStartTime = t]
    ELSE r

\* case MOTOR_OPEN_HOLDING that never ends the hold
MutHoldNeverEnds(r, t) == r

\* case MOTOR_OPEN_HOLDING with > in place of >=
MutHoldStrictlyLonger(r, t) ==
  IF ULongGeq(ULongSub(t, r.motorStateStartTime), DOOR_HOLD_TIME_MS + 1)
    THEN [moveTo(Log(r, "[MOTOR] Closing door (auto)..."), POS_CLOSED)
            EXCEPT !.motorState = "MOTOR_CLOSING"]
    ELSE r

\* motorUpdate(), case MOTOR_OPEN_HOLDING
motorUpdateOpenHolding(r, t) ==
  IF ULongGeq(ULongSub(t, r.motorStateStartTime), DOOR_HOLD_TIME_MS)
    THEN [moveTo(Log(r, "[MOTOR] Closing door (auto)..."), POS_CLOSED)
            EXCEPT !.motorState = "MOTOR_CLOSING"]
    ELSE r

\* motorUpdate(), case MOTOR_MANUAL_OPEN
motorUpdateManualOpen(r, t) == r

\* case MOTOR_CLOSING without the distanceToGo() test
MutClosingNoArrivalTest(r, t) ==
  LET c == Log(r, "[MOTOR] Door CLOSED")
      f == IF c.currentPos # POS_CLOSED
             THEN [Log(c, "[MOTOR] Warning: Expected POS_CLOSED")
                     EXCEPT !.failedMoves = @ + 1]
             ELSE c
  IN  Log([f EXCEPT !.motorState = "MOTOR_IDLE"],
          "[MOTOR] Ready for next operation")

\* case MOTOR_CLOSING that also ends the manual mode
MutClosingClearsManual(r, t) ==
  IF distanceToGo(r) = 0
    THEN LET c == Log(r, "[MOTOR] Door CLOSED")
             f == IF c.currentPos # POS_CLOSED
                    THEN [Log(c, "[MOTOR] Warning: Expected POS_CLOSED")
                            EXCEPT !.failedMoves = @ + 1]
                    ELSE c
         IN  Log([f EXCEPT !.motorState = "MOTOR_IDLE", !.manualMode = FALSE],
                 "[MOTOR] Ready for next operation")
    ELSE r

\* case MOTOR_CLOSING ending in the wrong enumerator
MutClosingEndsInError(r, t) ==
  IF distanceToGo(r) = 0
    THEN Log([r EXCEPT !.motorState = "MOTOR_ERROR"], "[MOTOR] Door CLOSED")
    ELSE r

\* motorUpdate(), case MOTOR_CLOSING
motorUpdateClosing(r, t) ==
  IF distanceToGo(r) = 0
    THEN LET c == Log(r, "[MOTOR] Door CLOSED")
             f == IF c.currentPos # POS_CLOSED
                    THEN [Log(c, "[MOTOR] Warning: Expected POS_CLOSED")
                            EXCEPT !.failedMoves = @ + 1]
                    ELSE c
         IN  Log([f EXCEPT !.motorState = "MOTOR_IDLE"],
                 "[MOTOR] Ready for next operation")
    ELSE r

\* void motorUpdate(), called at millis() = t, the stepper advancing by at most d
motorUpdate(s, t, d) ==
  LET r == run(s, d)
  IN  CASE r.motorState = "MOTOR_IDLE"         -> r
        [] r.motorState = "MOTOR_OPENING"      -> motorUpdateOpening(r, t)
        [] r.motorState = "MOTOR_OPEN_HOLDING" -> motorUpdateOpenHolding(r, t)
        [] r.motorState = "MOTOR_MANUAL_OPEN"  -> motorUpdateManualOpen(r, t)
        [] r.motorState = "MOTOR_CLOSING"      -> motorUpdateClosing(r, t)
        [] r.motorState = "MOTOR_ERROR"        ->
             Log(r, "[MOTOR] ERROR STATE - Manual intervention required")

\* bool motorIsIdle()
motorIsIdle(s) ==
  s.motorState = "MOTOR_IDLE" \/ s.motorState = "MOTOR_MANUAL_OPEN"

\* motorGetStatus with MOTOR_MANUAL_OPEN reported as "open"
MutStatusManualAsOpen(s) ==
  CASE s.motorState = "MOTOR_IDLE"         -> "closed"
    [] s.motorState = "MOTOR_OPENING"      -> "opening"
    [] s.motorState = "MOTOR_OPEN_HOLDING" -> "open"
    [] s.motorState = "MOTOR_MANUAL_OPEN"  -> "open"
    [] s.motorState = "MOTOR_CLOSING"      -> "closing"
    [] s.motorState = "MOTOR_ERROR"        -> "error"
    [] OTHER                               -> "unknown"

\* String motorGetStatus()
motorGetStatus(s) ==
  CASE s.motorState = "MOTOR_IDLE"         -> "closed"
    [] s.motorState = "MOTOR_OPENING"      -> "opening"
    [] s.motorState = "MOTOR_OPEN_HOLDING" -> "open"
    [] s.motorState = "MOTOR_MANUAL_OPEN"  -> "manual_open"
    [] s.motorState = "MOTOR_CLOSING"      -> "closing"
    [] s.motorState = "MOTOR_ERROR"        -> "error"
    [] OTHER                               -> "unknown"

(***************************************************************************)
(* Goat tracking functions                                                 *)
(*                                                                         *)
(* barnOccupants holds cells 0 .. barnPopulation-1 of the array, cell i at *)
(* index i+1.  The cells from barnPopulation on are dead: every loop over  *)
(* the array stops at barnPopulation, and barnAddGoat writes cell          *)
(* barnPopulation before it counts it.                                     *)
(***************************************************************************)
\* barnOccupants[i]
Cell(s, i) == s.barnOccupants[i + 1]

\* barnAddGoat with <= in place of < in the capacity test
MutAddPastCapacity(s, name) ==
  IF \E i \in 0..(s.barnPopulation - 1) : Cell(s, i) = name
    THEN Log(s, "[BARN] already inside")
    ELSE IF s.barnPopulation <= MAX_GOATS_IN_BARN
           THEN [Log(s, "[BARN] ENTERED") EXCEPT
                  !.barnOccupants =
                     [k \in 1..(s.barnPopulation + 1) |->
                        IF k = s.barnPopulation + 1 THEN name
                                                    ELSE s.barnOccupants[k]],
                  !.barnPopulation = @ + 1]
           ELSE Log(s, "[BARN] FULL - cannot add more goats!")

\* void barnAddGoat(String name)
barnAddGoat(s, name) ==
  IF \E i \in 0..(s.barnPopulation - 1) : Cell(s, i) = name
    THEN Log(s, "[BARN] already inside")
    ELSE IF s.barnPopulation < MAX_GOATS_IN_BARN
           THEN [Log(s, "[BARN] ENTERED") EXCEPT
                  !.barnOccupants =
                     [k \in 1..(s.barnPopulation + 1) |->
                        IF k = s.barnPopulation + 1 THEN name
                                                    ELSE s.barnOccupants[k]],
                  !.barnPopulation = @ + 1]
           ELSE Log(s, "[BARN] FULL - cannot add more goats!")

\* barnRemoveGoat that drops the last occupant when it finds the name
MutRemoveDropsLast(s, name) ==
  IF \E i \in 0..(s.barnPopulation - 1) : Cell(s, i) = name
    THEN [Log(s, "[BARN] EXITED") EXCEPT
           !.barnOccupants = [k \in 1..(s.barnPopulation - 1) |-> Cell(s, k - 1)],
           !.barnPopulation = @ - 1]
    ELSE Log(s, "[BARN] not found in barn")

\* barnRemoveGoat that fills the hole with the last occupant instead of
\* shifting the ones behind it
MutRemoveSwapsLast(s, name) ==
  LET found == { i \in 0..(s.barnPopulation - 1) : Cell(s, i) = name }
  IN  IF found = {}
        THEN Log(s, "[BARN] not found in barn")
        ELSE LET i == CHOOSE k \in found : \A m \in found : k <= m
             IN  [Log(s, "[BARN] EXITED") EXCEPT
                   !.barnOccupants =
                      [k \in 1..(s.barnPopulation - 1) |->
                         IF k - 1 = i THEN Cell(s, s.barnPopulation - 1)
                                      ELSE Cell(s, k - 1)],
                   !.barnPopulation = @ - 1]

\* void barnRemoveGoat(String name)
barnRemoveGoat(s, name) ==
  LET found == { i \in 0..(s.barnPopulation - 1) : Cell(s, i) = name }
  IN  IF found = {}
        THEN Log(s, "[BARN] not found in barn")
        ELSE LET i == CHOOSE k \in found : \A m \in found : k <= m
             IN  [Log(s, "[BARN] EXITED") EXCEPT
                   !.barnOccupants =
                      [k \in 1..(s.barnPopulation - 1) |->
                         IF k - 1 >= i THEN Cell(s, k) ELSE Cell(s, k - 1)],
                   !.barnPopulation = @ - 1]

\* void addGoatToBarn(String goatName), the single-loop sketch's tracker
\* (goatsInBarn and barnCount are barnOccupants and barnPopulation)
addGoatToBarn(s, goatName) ==
  IF \E i \in 0..(s.barnPopulation - 1) : Cell(s, i) = goatName
    THEN Log(s, "[BARN] already in barn (not adding again)")
    ELSE IF s.barnPopulation < 10
           THEN [Log(s, "[BARN] ENTERED barn") EXCEPT
                  !.barnOccupants =
                     [k \in 1..(s.barnPopulation + 1) |->
                        IF k = s.barnPopulation + 1 THEN goatName
                                                    ELSE s.barnOccupants[k]],
                  !.barnPopulation = @ + 1]
           ELSE Log(s, "[BARN] ERROR: Barn is full!")

\* void removeGoatFromBarn(String goatName), the single-loop sketch's tracker
removeGoatFromBarn(s, goatName) ==
  LET found == { i \in 0..(s.barnPopulation - 1) : Cell(s, i) = goatName }
  IN  IF found = {}
        THEN Log(s, "[BARN] was NOT in barn (cannot remove)")
        ELSE LET i == CHOOSE k \in found : \A m \in found : k <= m
             IN  [Log(s, "[BARN] LEFT barn") EXCEPT
                   !.barnOccupants =
                      [k \in 1..(s.barnPopulation - 1) |->
                         IF k - 1 >= i THEN Cell(s, k) ELSE Cell(s, k - 1)],
                   !.barnPopulation = @ - 1]

(***************************************************************************)
(* RFID functions                                                          *)
(***************************************************************************)
\* the name rfidIdentifyGoat returns, or "" for nullptr
rfidIdentifyGoat(uid) ==
  IF Len(uid) < 4
    THEN ""
    ELSE LET hits == { i \in 1..NUM_KNOWN_GOATS :
                         \A j \in 1..4 : knownGoats[i].uid[j] = uid[j] }
         IN  IF hits = {}
               THEN ""
               ELSE knownGoats[CHOOSE i \in hits : \A k \in hits : i <= k].name

\* the name taken from the lookup as it is, nullptr as the empty String
MutGoatOfNoSentinel(uid) == rfidIdentifyGoat(uid)

\* String goat = goatName ? String(goatName) : "UNKNOWN"
GoatOf(uid) ==
  IF rfidIdentifyGoat(uid) # "" THEN rfidIdentifyGoat(uid) ELSE "UNKNOWN"

LastState(s, readerNumber) ==
  IF readerNumber = 1 THEN s.lastCardStateR1 ELSE s.lastCardStateR2

SetLastState(s, readerNumber, v) ==
  IF readerNumber = 1 THEN [s EXCEPT !.lastCardStateR1 = v]
                      ELSE [s EXCEPT !.lastCardStateR2 = v]

\* the door trigger without the motorIsIdle() test
MutTriggerIgnoresBusy(s) == ~s.manualMode

\* the door trigger without the manualMode test
MutTriggerIgnoresManual(s) == motorIsIdle(s)

\* rfidCheckReader: if (!manualMode && motorIsIdle())
TriggerDoor(s) == ~s.manualMode /\ motorIsIdle(s)

\* rfidCheckReader with the two readers' tracker calls exchanged
MutReaderChannelsSwapped(s, readerNumber, cardPresent, uid, t) ==
  IF cardPresent /\ ~LastState(s, readerNumber)
    THEN LET goat == GoatOf(uid)
             g == Log(s, "[RFID] Detected")
             b == IF readerNumber = 1 THEN barnRemoveGoat(g, goat)
                  ELSE IF readerNumber = 2 THEN barnAddGoat(g, goat)
                  ELSE g
             m == IF TriggerDoor(b)
                    THEN motorOpenDoor(b, t)
                    ELSE Log(b, "[RFID] Motor busy or manual mode - ignoring scan")
         IN  SetLastState(m, readerNumber, TRUE)
    ELSE IF ~cardPresent
           THEN SetLastState(s, readerNumber, FALSE)
           ELSE s

\* rfidCheckReader without the !lastState test: every poll that reads a card
\* is a detection
MutReaderLevelTriggered(s, readerNumber, cardPresent, uid, t) ==
  IF cardPresent
    THEN LET goat == GoatOf(uid)
             g == Log(s, "[RFID] Detected")
             b == IF readerNumber = 1 THEN barnAddGoat(g, goat)
                  ELSE IF readerNumber = 2 THEN barnRemoveGoat(g, goat)
                  ELSE g
             m == IF TriggerDoor(b)
                    THEN motorOpenDoor(b, t)
                    ELSE Log(b, "[RFID] Motor busy or manual mode - ignoring scan")
         IN  SetLastState(m, readerNumber, TRUE)
    ELSE SetLastState(s, readerNumber, FALSE)

\* void rfidCheckReader(reader, readerNumber, lastState), the driver reporting
\* cardPresent and, when present, the uid
rfidCheckReader(s, readerNumber, cardPresent, uid, t) ==
  IF cardPresent /\ ~LastState(s, readerNumber)
    THEN LET goat == GoatOf(uid)
             g == Log(s, "[RFID] Detected")
             b == IF readerNumber = 1 THEN barnAddGoat(g, goat)
                  ELSE IF readerNumber = 2 THEN barnRemoveGoat(g, goat)
                  ELSE g
             m == IF TriggerDoor(b)
                    THEN motorOpenDoor(b, t)
                    ELSE Log(b, "[RFID] Motor busy or manual mode - ignoring scan")
         IN  SetLastState(m, readerNumber, TRUE)
    ELSE IF ~cardPresent
           THEN SetLastState(s, readerNumber, FALSE)
           ELSE s

(***************************************************************************)
(* Web server handlers: the state after the call and the response sent     *)
(***************************************************************************)
NoResponse == [code |-> 0, type |-> "", body |-> ""]

\* void webHandleAPI(): the JSON document as its three members
webHandleAPI(s) ==
  [code |-> 200, type |-> "application/json",
   body |-> [count      |-> s.barnPopulation,
             doorStatus |-> motorGetStatus(s),
             goats      |-> [k \in 1..s.barnPopulation |-> Cell(s, k - 1)]]]

\* void webHandleDoorOpen()
webHandleDoorOpen(s, t) == motorManualOpen(s, t)

\* void webHandleDoorClose()
webHandleDoorClose(s, t) == motorManualClose(s, t)

\* a handler that reports a refused command
MutSendConflict == [code |-> 409, type |-> "text/plain", body |-> "BUSY"]

\* webServer.send(200, "text/plain", "OK")
SendOK == [code |-> 200, type |-> "text/plain", body |-> "OK"]

(***************************************************************************)
(* Steps                                                                   *)
(***************************************************************************)
NoArg == [cardPresent |-> FALSE, uid |-> << >>, name |-> "", d |-> 0, held |-> 0]

\* what a poll of a reader can return
Polls == { [NoArg EXCEPT !.cardPresent = TRUE, !.uid = u, !.name = GoatOf(u)] :
             u \in CardUids } \cup { NoArg }

\* the detections and open requests of a run of polls that read a card
NoRun == [events |-> 0, opens |-> 0]

Has(lines, line) == \E k \in 1..Len(lines) : lines[k] = line

\* the run of reader n after a poll of it that printed lines
RunAfter(r, cardPresent, lines) ==
  IF ~cardPresent
    THEN NoRun
    ELSE [events |-> r.events + (IF Has(lines, "[RFID] Detected") THEN 1 ELSE 0),
          opens  |-> r.opens + (IF Has(lines, "[MOTOR] Opening door...")
                                     \/ Has(lines, "[MOTOR] Busy - command ignored")
                                  THEN 1 ELSE 0)]

\* no remove came just before the last call
NoRemove == [set |-> FALSE, list |-> << >>]

\* the add function of each sketch and the remove function that goes with it
RemoveOf(op) ==
  CASE op = "barnAddGoat"   -> "barnRemoveGoat"
    [] op = "addGoatToBarn" -> "removeGoatFromBarn"
    [] OTHER                -> "none"

\* one step of a task: the program state becomes s2; the history records it
StepT(s2, op, arg) ==
  /\ s2.totalMoves <= MaxMoves
  /\ motorState' = s2.motorState
  /\ motorStateStartTime' = s2.motorStateStartTime
  /\ manualMode' = s2.manualMode
  /\ totalMoves' = s2.totalMoves
  /\ failedMoves' = s2.failedMoves
  /\ targetPos' = s2.targetPos
  /\ currentPos' = s2.currentPos
  /\ lastCardStateR1' = s2.lastCardStateR1
  /\ lastCardStateR2' = s2.lastCardStateR2
  /\ barnOccupants' = s2.barnOccupants
  /\ barnPopulation' = s2.barnPopulation
  /\ serial' = s2.serial
  /\ heldMs' = IF s2.motorState = "MOTOR_OPEN_HOLDING"
                 THEN (IF motorState = "MOTOR_OPEN_HOLDING" THEN heldMs ELSE 0)
                 ELSE 0
  /\ lastOp' = op
  /\ lastArg' = arg
  /\ pre' = Pre(Cur)
  /\ presentRun' =
       CASE op = "rfidCheckReader1" ->
              [presentRun EXCEPT ![1] = RunAfter(@, arg.cardPresent, s2.serial)]
         [] op = "rfidCheckReader2" ->
              [presentRun EXCEPT ![2] = RunAfter(@, arg.cardPresent, s2.serial)]
         [] OTHER -> presentRun
  /\ beforeRemove' = IF lastOp = RemoveOf(op) /\ lastArg.name = arg.name
                       THEN [set |-> TRUE, list |-> pre.barnOccupants]
                       ELSE NoRemove
  /\ UNCHANGED << now, ticks, raceStart >>

\* one call taken as a whole
Step(s2, op, arg) == StepT(s2, op, arg) /\ UNCHANGED taskvars

NoRtLoc == [readerNumber |-> 0, goat |-> "", j |-> 0]
NoJson == [count |-> 0, doorStatus |-> "", goats |-> << >>]
NoWebLoc == [i |-> 0, json |-> NoJson]

\* setup(): the globals' initialisers and motorInit()
InitState ==
  [ motorState          |-> "MOTOR_IDLE",
    motorStateStartTime |-> ULong(0),
    manualMode          |-> FALSE,
    totalMoves          |-> 0,
    failedMoves         |-> 0,
    targetPos           |-> POS_CLOSED,
    currentPos          |-> POS_CLOSED,
    lastCardStateR1     |-> FALSE,
    lastCardStateR2     |-> FALSE,
    barnOccupants       |-> << >>,
    barnPopulation      |-> 0,
    serial              |-> << >> ]

InitWith(s0, start) ==
  /\ raceStart = start
  /\ motorState = s0.motorState
  /\ motorStateStartTime = s0.motorStateStartTime
  /\ manualMode = s0.manualMode
  /\ totalMoves = s0.totalMoves
  /\ failedMoves = s0.failedMoves
  /\ targetPos = s0.targetPos
  /\ currentPos = s0.currentPos
  /\ lastCardStateR1 = s0.lastCardStateR1
  /\ lastCardStateR2 = s0.lastCardStateR2
  /\ barnOccupants = s0.barnOccupants
  /\ barnPopulation = s0.barnPopulation
  /\ serial = s0.serial
  /\ ticks = 0
  /\ rtpc = "motorUpdate"
  /\ calls = 0
  /\ webResponse = NoResponse
  /\ heldMs = 0
  /\ lastOp = "setup"
  /\ lastArg = NoArg
  /\ pre = Pre(s0)
  /\ mutex = "free"
  /\ webpc = "idle"
  /\ rtloc = NoRtLoc
  /\ webloc = NoWebLoc
  /\ settled = s0.barnOccupants
  /\ presentRun = << NoRun, NoRun >>
  /\ beforeRemove = NoRemove

\* no start state is kept
NoStart == [motorState |-> ""]

InitFrom(s0) == InitWith(s0, NoStart)

Init == now \in BootClocks /\ InitFrom(InitState)

\* millis() advances
Clock ==
  /\ ticks < MaxTicks
  /\ ticks' = ticks + 1
  /\ now' = ULongAdd(now, TickMs)
  /\ heldMs' = IF motorState = "MOTOR_OPEN_HOLDING" THEN heldMs + TickMs ELSE 0
  /\ UNCHANGED << motorState, motorStateStartTime, manualMode, totalMoves,
                  failedMoves, targetPos, currentPos, lastCardStateR1,
                  lastCardStateR2, barnOccupants, barnPopulation, rtpc, calls,
                  serial, webResponse, lastOp, lastArg, pre, presentRun,
                  beforeRemove, taskvars, raceStart >>

\* taskMotorAndRFID: motorUpdate()
TaskMotorUpdate ==
  /\ rtpc = "motorUpdate"
  /\ \E d \in {0, RunStep} :
       Step(motorUpdate(Cur, now, d), "motorUpdate",
            [NoArg EXCEPT !.d = d, !.held = heldMs])
  /\ rtpc' = "motorIsIdle"
  /\ webResponse' = NoResponse
  /\ UNCHANGED calls

\* taskMotorAndRFID: if (motorIsIdle())
TaskMotorIsIdle ==
  /\ rtpc = "motorIsIdle"
  /\ Step(Cur, "motorIsIdle", NoArg)
  /\ rtpc' = IF motorIsIdle(Cur) THEN "rfidCheckReader1" ELSE "motorUpdate"
  /\ webResponse' = NoResponse
  /\ UNCHANGED calls

\* taskMotorAndRFID: rfidCheckReader(rfidReader1, 1, lastCardStateR1)
TaskRfidCheckReader1 ==
  /\ rtpc = "rfidCheckReader1"
  /\ \E p \in Polls :
       Step(rfidCheckReader(Cur, 1, p.cardPresent, p.uid, now),
            "rfidCheckReader1", p)
  /\ rtpc' = "rfidCheckReader2"
  /\ webResponse' = NoResponse
  /\ UNCHANGED calls

\* taskMotorAndRFID: rfidCheckReader(rfidReader2, 2, lastCardStateR2)
TaskRfidCheckReader2 ==
  /\ rtpc = "rfidCheckReader2"
  /\ \E p \in Polls :
       Step(rfidCheckReader(Cur, 2, p.cardPresent, p.uid, now),
            "rfidCheckReader2", p)
  /\ rtpc' = "motorUpdate"
  /\ webResponse' = NoResponse
  /\ UNCHANGED calls

\* taskWebServer: GET /api/barn
WebHandleAPI ==
  /\ webpc = "idle"
  /\ Step(Cur, "webHandleAPI", NoArg)
  /\ webResponse' = webHandleAPI(Cur)
  /\ UNCHANGED << rtpc, calls >>

\* taskWebServer: POST /api/door/open
WebHandleDoorOpen ==
  /\ webpc = "idle"
  /\ Step(webHandleDoorOpen(Cur, now), "webHandleDoorOpen", NoArg)
  /\ webResponse' = SendOK
  /\ UNCHANGED << rtpc, calls >>

\* taskWebServer: POST /api/door/close
WebHandleDoorClose ==
  /\ webpc = "idle"
  /\ Step(webHandleDoorClose(Cur, now), "webHandleDoorClose", NoArg)
  /\ webResponse' = SendOK
  /\ UNCHANGED << rtpc, calls >>

Next ==
  \/ Clock
  \/ TaskMotorUpdate
  \/ TaskMotorIsIdle
  \/ TaskRfidCheckReader1
  \/ TaskRfidCheckReader2
  \/ WebHandleAPI
  \/ WebHandleDoorOpen
  \/ WebHandleDoorClose

Spec == Init /\ [][Next]_vars

(***************************************************************************)
(* SpecAuto: no POST /api/door/open and no POST /api/door/close is made.   *)
(* The only value of millis() the program compares is the time spent in    *)
(* MOTOR_OPEN_HOLDING, so time passes here while the door is held, without *)
(* a bound on the run.  taskMotorAndRFID never stops (its loop has no      *)
(* blocking call outside the mutex), and the stepper keeps stepping.       *)
(***************************************************************************)
\* millis() advances while the door is held open
ClockHold ==
  /\ motorState = "MOTOR_OPEN_HOLDING"
  /\ heldMs < DOOR_HOLD_TIME_MS
  /\ now' = ULongAdd(now, TickMs)
  /\ heldMs' = heldMs + TickMs
  /\ UNCHANGED << motorState, motorStateStartTime, manualMode, totalMoves,
                  failedMoves, targetPos, currentPos, lastCardStateR1,
                  lastCardStateR2, barnOccupants, barnPopulation, ticks, rtpc,
                  calls, serial, webResponse, lastOp, lastArg, pre, presentRun,
                  beforeRemove, taskvars, raceStart >>

\* a motorUpdate() in which motor.run() steps
MotorAdvances ==
  /\ rtpc = "motorUpdate"
  /\ Step(motorUpdate(Cur, now, RunStep), "motorUpdate",
          [NoArg EXCEPT !.d = RunStep, !.held = heldMs])
  /\ rtpc' = "motorIsIdle"
  /\ webResponse' = NoResponse
  /\ UNCHANGED calls

NextAuto ==
  \/ ClockHold
  \/ TaskMotorUpdate
  \/ TaskMotorIsIdle
  \/ TaskRfidCheckReader1
  \/ TaskRfidCheckReader2
  \/ WebHandleAPI

SpecAuto ==
  /\ Init
  /\ [][NextAuto]_vars
  /\ WF_vars(ClockHold)
  /\ WF_vars(TaskMotorIsIdle)
  /\ WF_vars(TaskRfidCheckReader1)
  /\ WF_vars(TaskRfidCheckReader2)
  /\ SF_vars(MotorAdvances)

(***************************************************************************)
(* SpecBarn: the tracker functions called directly                         *)
(***************************************************************************)
\* the state after barnAddGoat of the first k names of TrackerNames
Filled(k) ==
  [InitState EXCEPT
     !.barnOccupants = [i \in 1..k |-> TrackerNames[i]],
     !.barnPopulation = k]

InitBarn ==
  /\ now = ULong(0)
  /\ \E k \in 0..MAX_GOATS_IN_BARN : InitFrom(Filled(k))

CallBarnAddGoat ==
  /\ calls < MaxCalls
  /\ calls' = calls + 1
  /\ \E i \in 1..Len(TrackerNames) :
       Step(barnAddGoat(Cur, TrackerNames[i]), "barnAddGoat",
            [NoArg EXCEPT !.name = TrackerNames[i]])
  /\ UNCHANGED << rtpc, webResponse >>

CallBarnRemoveGoat ==
  /\ calls < MaxCalls
  /\ calls' = calls + 1
  /\ \E i \in 1..Len(TrackerNames) :
       Step(barnRemoveGoat(Cur, TrackerNames[i]), "barnRemoveGoat",
            [NoArg EXCEPT !.name = TrackerNames[i]])
  /\ UNCHANGED << rtpc, webResponse >>

CallAddGoatToBarn ==
  /\ calls < MaxCalls
  /\ calls' = calls + 1
  /\ \E i \in 1..Len(TrackerNames) :
       Step(addGoatToBarn(Cur, TrackerNames[i]), "addGoatToBarn",
            [NoArg EXCEPT !.name = TrackerNames[i]])
  /\ UNCHANGED << rtpc, webResponse >>

CallRemoveGoatFromBarn ==
  /\ calls < MaxCalls
  /\ calls' = calls + 1
  /\ \E i \in 1..Len(TrackerNames) :
       Step(removeGoatFromBarn(Cur, TrackerNames[i]), "removeGoatFromBarn",
            [NoArg EXCEPT !.name = TrackerNames[i]])
  /\ UNCHANGED << rtpc, webResponse >>

NextBarn ==
  \/ CallBarnAddGoat
  \/ CallBarnRemoveGoat
  \/ CallAddGoatToBarn
  \/ CallRemoveGoatFromBarn

SpecBarn == InitBarn /\ [][NextBarn]_vars

(***************************************************************************)
(* SpecMotor: the motor control functions called directly, from every      *)
(* value of the controller's fields (MOTOR_ERROR included)                 *)
(***************************************************************************)
MotorInputs ==
  { [InitState EXCEPT !.motorState = st, !.manualMode = mm,
                      !.targetPos = tp, !.currentPos = cp] :
      st \in MotorState_t, mm \in BOOLEAN,
      tp \in {POS_CLOSED, POS_OPEN}, cp \in {POS_CLOSED, RunStep, POS_OPEN} }

InitMotor ==
  /\ now \in {ULong(0), ULong(DOOR_HOLD_TIME_MS)}
  /\ \E s0 \in MotorInputs : InitFrom(s0)

CallMotorOpenDoor ==
  /\ calls < MaxCalls
  /\ calls' = calls + 1
  /\ Step(motorOpenDoor(Cur, now), "motorOpenDoor", NoArg)
  /\ UNCHANGED << rtpc, webResponse >>

CallMotorManualOpen ==
  /\ calls < MaxCalls
  /\ calls' = calls + 1
  /\ Step(motorManualOpen(Cur, now), "motorManualOpen", NoArg)
  /\ UNCHANGED << rtpc, webResponse >>

CallMotorCloseDoor ==
  /\ calls < MaxCalls
  /\ calls' = calls + 1
  /\ Step(motorCloseDoor(Cur, now), "motorCloseDoor", NoArg)
  /\ UNCHANGED << rtpc, webResponse >>

CallMotorManualClose ==
  /\ calls < MaxCalls
  /\ calls' = calls + 1
  /\ Step(motorManualClose(Cur, now), "motorManualClose", NoArg)
  /\ UNCHANGED << rtpc, webResponse >>

CallMotorUpdate ==
  /\ calls < MaxCalls
  /\ calls' = calls + 1
  /\ \E d \in {0, RunStep} :
       Step(motorUpdate(Cur, now, d), "motorUpdate",
            [NoArg EXCEPT !.d = d, !.held = heldMs])
  /\ UNCHANGED << rtpc, webResponse >>

NextMotor ==
  \/ CallMotorOpenDoor
  \/ CallMotorManualOpen
  \/ CallMotorCloseDoor
  \/ CallMotorManualClose
  \/ CallMotorUpdate

SpecMotor == InitMotor /\ [][NextMotor]_vars

(***************************************************************************)
(* SpecReader: rfidCheckReader, for either reader, and webHandleAPI called  *)
(* directly from every door state, with and without the manual flag, on an *)
(* empty list, on partly filled lists and on full lists with and without   *)
(* Bron                                                                    *)
(***************************************************************************)
\* the full list that begins at the second name: Bron is not in the barn
FullWithoutBron ==
  [InitState EXCEPT
     !.barnOccupants = [i \in 1..MAX_GOATS_IN_BARN |-> TrackerNames[i + 1]],
     !.barnPopulation = MAX_GOATS_IN_BARN]

ReaderInputs ==
  { [b EXCEPT !.motorState = st, !.manualMode = mm] :
      b \in { Filled(k) : k \in 0..MAX_GOATS_IN_BARN } \cup { FullWithoutBron },
      st \in MotorState_t, mm \in BOOLEAN }

InitReader ==
  /\ now = ULong(0)
  /\ \E s0 \in ReaderInputs : InitFrom(s0)

CallRfidCheckReader1 ==
  /\ calls < MaxCalls
  /\ calls' = calls + 1
  /\ \E p \in Polls :
       Step(rfidCheckReader(Cur, 1, p.cardPresent, p.uid, now),
            "rfidCheckReader1", p)
  /\ UNCHANGED << rtpc, webResponse >>

CallRfidCheckReader2 ==
  /\ calls < MaxCalls
  /\ calls' = calls + 1
  /\ \E p \in Polls :
       Step(rfidCheckReader(Cur, 2, p.cardPresent, p.uid, now),
            "rfidCheckReader2", p)
  /\ UNCHANGED << rtpc, webResponse >>

CallWebHandleAPI ==
  /\ calls < MaxCalls
  /\ calls' = calls + 1
  /\ Step(Cur, "webHandleAPI", NoArg)
  /\ webResponse' = webHandleAPI(Cur)
  /\ UNCHANGED rtpc

NextReader ==
  \/ CallRfidCheckReader1
  \/ CallRfidCheckReader2
  \/ CallWebHandleAPI

SpecReader == InitReader /\ [][NextReader]_vars

(***************************************************************************)
(* SpecTasks: taskMotorAndRFID and taskWebServer interleaved between the   *)
(* statements of barnAddGoat, barnRemoveGoat and webHandleAPI.  The motor  *)
(* functions take no mutex; each of their calls is one step here.          *)
(* barnOccupants may here hold one cell past barnPopulation: the cell      *)
(* barnAddGoat has written and not yet counted.                            *)
(***************************************************************************)
\* a take that does not wait for the holder
MutTakeNoWait(m) == TRUE

\* xSemaphoreTake(barnDataMutex, portMAX_DELAY) returns when the mutex is free
xSemaphoreTake(m) == m = "free"

\* where taskMotorAndRFID goes on after rfidCheckReader of reader n
AfterReader(n) == IF n = 1 THEN "rfidCheckReader2" ELSE "motorUpdate"

\* rfidCheckReader up to the tracker call: the poll, the edge test, the lookup
ReaderPoll ==
  /\ rtpc \in {"rfidCheckReader1", "rfidCheckReader2"}
  /\ LET n == IF rtpc = "rfidCheckReader1" THEN 1 ELSE 2
     IN  \E p \in Polls :
           IF p.cardPresent /\ ~LastState(Cur, n)
             THEN /\ StepT(Log(Cur, "[RFID] Detected"), "rfidCheckReader.detect", p)
                  /\ rtloc' = [readerNumber |-> n, goat |-> GoatOf(p.uid), j |-> 0]
                  /\ rtpc' = "barnTake"
             ELSE /\ StepT(IF ~p.cardPresent THEN SetLastState(Cur, n, FALSE)
                                             ELSE Cur,
                           "rfidCheckReader.poll", p)
                  /\ rtloc' = NoRtLoc
                  /\ rtpc' = AfterReader(n)
  /\ UNCHANGED << mutex, webpc, webloc, settled, webResponse, calls >>

\* barnAddGoat / barnRemoveGoat: xSemaphoreTake
BarnTake ==
  /\ rtpc = "barnTake"
  /\ xSemaphoreTake(mutex)
  /\ mutex' = "rt"
  /\ rtpc' = "barnScan"
  /\ StepT(Cur, "barn.take", NoArg)
  /\ UNCHANGED << webpc, rtloc, webloc, settled, webResponse, calls >>

\* barnAddGoat: the scan for the name and the capacity test
BarnAddScan ==
  /\ rtpc = "barnScan"
  /\ rtloc.readerNumber = 1
  /\ IF \E i \in 0..(barnPopulation - 1) : Cell(Cur, i) = rtloc.goat
       THEN StepT(Log(Cur, "[BARN] already inside"), "barnAddGoat.scan", NoArg)
              /\ rtpc' = "barnGive"
       ELSE IF barnPopulation < MAX_GOATS_IN_BARN
              THEN StepT(Cur, "barnAddGoat.scan", NoArg) /\ rtpc' = "addWrite"
              ELSE StepT(Log(Cur, "[BARN] FULL - cannot add more goats!"),
                         "barnAddGoat.scan", NoArg)
                     /\ rtpc' = "barnGive"
  /\ UNCHANGED << taskvars, webResponse, calls >>

\* barnAddGoat: barnOccupants[barnPopulation] = name
BarnAddWrite ==
  /\ rtpc = "addWrite"
  /\ StepT([Cur EXCEPT !.barnOccupants =
                     Append(SubSeq(barnOccupants, 1, barnPopulation), rtloc.goat)],
           "barnAddGoat.write", NoArg)
  /\ rtpc' = "addCount"
  /\ UNCHANGED << taskvars, webResponse, calls >>

\* barnAddGoat: barnPopulation++
BarnAddCount ==
  /\ rtpc = "addCount"
  /\ StepT([Log(Cur, "[BARN] ENTERED") EXCEPT !.barnPopulation = @ + 1],
           "barnAddGoat.count", NoArg)
  /\ rtpc' = "barnGive"
  /\ UNCHANGED << taskvars, webResponse, calls >>

\* barnRemoveGoat: the search for the name
BarnRemoveScan ==
  /\ rtpc = "barnScan"
  /\ rtloc.readerNumber = 2
  /\ LET found == { i \in 0..(barnPopulation - 1) : Cell(Cur, i) = rtloc.goat }
     IN  IF found = {}
           THEN /\ StepT(Log(Cur, "[BARN] not found in barn"),
                         "barnRemoveGoat.scan", NoArg)
                /\ rtpc' = "barnGive"
                /\ rtloc' = rtloc
           ELSE /\ StepT(Cur, "barnRemoveGoat.scan", NoArg)
                /\ rtpc' = "removeShift"
                /\ rtloc' = [rtloc EXCEPT
                               !.j = CHOOSE k \in found : \A m \in found : k <= m]
  /\ UNCHANGED << mutex, webpc, webloc, settled, webResponse, calls >>

\* barnRemoveGoat: barnOccupants[j] = barnOccupants[j + 1]; j++
BarnRemoveShift ==
  /\ rtpc = "removeShift"
  /\ rtloc.j < barnPopulation - 1
  /\ StepT([Cur EXCEPT !.barnOccupants[rtloc.j + 1] = Cell(Cur, rtloc.j + 1)],
           "barnRemoveGoat.shift", NoArg)
  /\ rtloc' = [rtloc EXCEPT !.j = @ + 1]
  /\ UNCHANGED << rtpc, mutex, webpc, webloc, settled, webResponse, calls >>

\* barnRemoveGoat: barnPopulation-- (the last cell is dead from here on)
BarnRemoveCount ==
  /\ rtpc = "removeShift"
  /\ rtloc.j >= barnPopulation - 1
  /\ StepT([Log(Cur, "[BARN] EXITED") EXCEPT
             !.barnOccupants = SubSeq(barnOccupants, 1, barnPopulation - 1),
             !.barnPopulation = @ - 1],
           "barnRemoveGoat.count", NoArg)
  /\ rtpc' = "barnGive"
  /\ UNCHANGED << taskvars, webResponse, calls >>

\* barnAddGoat / barnRemoveGoat: xSemaphoreGive
BarnGive ==
  /\ rtpc = "barnGive"
  /\ mutex' = "free"
  /\ settled' = SubSeq(barnOccupants, 1, barnPopulation)
  /\ rtpc' = "trigger"
  /\ StepT(Cur, "barn.give", NoArg)
  /\ UNCHANGED << webpc, rtloc, webloc, webResponse, calls >>

\* rfidCheckReader after the tracker call: the door trigger, lastState = true
ReaderTrigger ==
  /\ rtpc = "trigger"
  /\ StepT(SetLastState(IF TriggerDoor(Cur)
                          THEN motorOpenDoor(Cur, now)
                          ELSE Log(Cur, "[RFID] Motor busy or manual mode - ignoring scan"),
                        rtloc.readerNumber, TRUE),
           "rfidCheckReader.trigger", NoArg)
  /\ rtpc' = AfterReader(rtloc.readerNumber)
  /\ rtloc' = NoRtLoc
  /\ UNCHANGED << mutex, webpc, webloc, settled, webResponse, calls >>

\* webHandleAPI: xSemaphoreTake
ApiTake ==
  /\ webpc = "idle"
  /\ xSemaphoreTake(mutex)
  /\ mutex' = "web"
  /\ webpc' = "apiHead"
  /\ webResponse' = NoResponse
  /\ StepT(Cur, "webHandleAPI.take", NoArg)
  /\ UNCHANGED << rtpc, rtloc, webloc, settled, calls >>

\* webHandleAPI: the count and the door status of the JSON document
ApiHead ==
  /\ webpc = "apiHead"
  /\ webloc' = [i |-> 0,
                json |-> [count      |-> barnPopulation,
                          doorStatus |-> motorGetStatus(Cur),
                          goats      |-> << >>]]
  /\ webpc' = "apiGoats"
  /\ StepT(Cur, "webHandleAPI.head", NoArg)
  /\ UNCHANGED << rtpc, mutex, rtloc, settled, webResponse, calls >>

\* webHandleAPI: one pass of the loop over barnOccupants
ApiGoat ==
  /\ webpc = "apiGoats"
  /\ webloc.i < barnPopulation
  /\ webloc' = [i |-> webloc.i + 1,
                json |-> [webloc.json EXCEPT
                            !.goats = Append(@, Cell(Cur, webloc.i))]]
  /\ StepT(Cur, "webHandleAPI.goat", NoArg)
  /\ UNCHANGED << rtpc, webpc, mutex, rtloc, settled, webResponse, calls >>

\* webHandleAPI: xSemaphoreGive after the loop
ApiGive ==
  /\ webpc = "apiGoats"
  /\ webloc.i >= barnPopulation
  /\ mutex' = "free"
  /\ webpc' = "apiSend"
  /\ StepT(Cur, "webHandleAPI.give", NoArg)
  /\ UNCHANGED << rtpc, rtloc, webloc, settled, webResponse, calls >>

\* webHandleAPI: webServer.send(200, "application/json", json)
ApiSend ==
  /\ webpc = "apiSend"
  /\ webResponse' = [code |-> 200, type |-> "application/json",
                     body |-> webloc.json]
  /\ webpc' = "idle"
  /\ webloc' = NoWebLoc
  /\ StepT(Cur, "webHandleAPI.send", NoArg)
  /\ UNCHANGED << rtpc, mutex, rtloc, settled, calls >>

NextTasks ==
  \/ TaskMotorUpdate
  \/ TaskMotorIsIdle
  \/ ReaderPoll
  \/ BarnTake
  \/ BarnAddScan
  \/ BarnAddWrite
  \/ BarnAddCount
  \/ BarnRemoveScan
  \/ BarnRemoveShift
  \/ BarnRemoveCount
  \/ BarnGive
  \/ ReaderTrigger
  \/ ApiTake
  \/ ApiHead
  \/ ApiGoat
  \/ ApiGive
  \/ ApiSend
  \/ WebHandleDoorOpen
  \/ WebHandleDoorClose

\* a stretch of the run shorter than the hold time: millis() stays at its
\* boot value, and a door in OpenHolding is closed by POST /api/door/close
InitTasks == now = ULong(0) /\ InitFrom(InitState)

SpecTasks == InitTasks /\ [][NextTasks]_vars

(***************************************************************************)
(* SpecRace: one call of motorUpdate() by taskMotorAndRFID and one door     *)
(* command of taskWebServer, each a sequence of reads and writes of the    *)
(* controller's fields in the order of the source, interleaved freely: no  *)
(* motor function takes a mutex and the fields are plain globals.  The run *)
(* starts from a state that whole calls reach.                             *)
(***************************************************************************)
\* the door states with the target and the positions they are reached with
RaceInputs ==
  { s0 \in MotorInputs :
           /\ s0.motorState # "MOTOR_ERROR"
           /\ s0.targetPos = IF s0.motorState \in {"MOTOR_IDLE", "MOTOR_CLOSING"}
                               THEN POS_CLOSED ELSE POS_OPEN
           /\ s0.motorState = "MOTOR_IDLE" => s0.currentPos = POS_CLOSED
           /\ s0.motorState \in {"MOTOR_OPEN_HOLDING", "MOTOR_MANUAL_OPEN"}
                => s0.currentPos = POS_OPEN
           /\ s0.motorState = "MOTOR_MANUAL_OPEN" => s0.manualMode }

InitRace ==
  /\ now \in {ULong(0), ULong(DOOR_HOLD_TIME_MS)}
  /\ \E s0 \in RaceInputs : InitWith(s0, s0)

\* the locals of motorUpdate: the switch value, manualMode as read, and the
\* steps motor.run() made
UpdLoc(st, mm, d) == [st |-> st, mm |-> mm, d |-> d]

\* motorUpdate: motor.run()
UpdRun ==
  /\ rtpc = "motorUpdate"
  /\ \E d \in {0, RunStep} :
       /\ StepT(run(Cur, d), "motorUpdate.run", [NoArg EXCEPT !.d = d])
       /\ rtloc' = UpdLoc("", FALSE, d)
  /\ rtpc' = "upd.switch"
  /\ UNCHANGED << webpc, webloc, mutex, settled, webResponse, calls >>

\* motorUpdate: switch (motorState)
UpdSwitch ==
  /\ rtpc = "upd.switch"
  /\ StepT(Cur, "motorUpdate.switch", NoArg)
  /\ rtloc' = [rtloc EXCEPT !.st = motorState]
  /\ rtpc' = CASE motorState = "MOTOR_OPENING"      -> "upd.opening"
               [] motorState = "MOTOR_OPEN_HOLDING" -> "upd.holding"
               [] motorState = "MOTOR_CLOSING"      -> "upd.closing"
               [] OTHER                             -> "upd.done"
  /\ UNCHANGED << webpc, webloc, mutex, settled, webResponse, calls >>

\* case MOTOR_OPENING: the distanceToGo() test and the position check
UpdOpeningTest ==
  /\ rtpc = "upd.opening"
  /\ IF distanceToGo(Cur) = 0
       THEN /\ StepT(LET o == Log(Cur, "[MOTOR] Door OPEN")
                     IN  IF o.currentPos # POS_OPEN
                           THEN [Log(o, "[MOTOR] Warning: Expected POS_OPEN")
                                   EXCEPT !.failedMoves = @ + 1]
                           ELSE o,
                     "motorUpdate.opening", NoArg)
            /\ rtpc' = "upd.opening.manual"
       ELSE /\ StepT(Cur, "motorUpdate.opening", NoArg)
            /\ rtpc' = "upd.done"
  /\ UNCHANGED rtloc
  /\ UNCHANGED << webpc, webloc, mutex, settled, webResponse, calls >>

\* case MOTOR_OPENING: if (manualMode)
UpdOpeningManual ==
  /\ rtpc = "upd.opening.manual"
  /\ StepT(Cur, "motorUpdate.manual", NoArg)
  /\ rtloc' = [rtloc EXCEPT !.mm = manualMode]
  /\ rtpc' = "upd.opening.state"
  /\ UNCHANGED << webpc, webloc, mutex, settled, webResponse, calls >>

\* case MOTOR_OPENING: motorState = MOTOR_MANUAL_OPEN or MOTOR_OPEN_HOLDING
UpdOpeningState ==
  /\ rtpc = "upd.opening.state"
  /\ IF rtloc.mm
       THEN /\ StepT(Log([Cur EXCEPT !.motorState = "MOTOR_MANUAL_OPEN"],
                         "[MOTOR] Manual mode - door stays open"),
                     "motorUpdate.state", NoArg)
            /\ rtpc' = "upd.done"
       ELSE /\ StepT([Cur EXCEPT !.motorState = "MOTOR_OPEN_HOLDING"],
                     "motorUpdate.state", NoArg)
            /\ rtpc' = "upd.opening.start"
  /\ UNCHANGED rtloc
  /\ UNCHANGED << webpc, webloc, mutex, settled, webResponse, calls >>

\* case MOTOR_OPENING: motorStateStartTime = millis()
UpdOpeningStart ==
  /\ rtpc = "upd.opening.start"
  /\ StepT([Cur EXCEPT !.motorStateStartTime = now], "motorUpdate.start", NoArg)
  /\ rtpc' = "upd.done"
  /\ UNCHANGED rtloc
  /\ UNCHANGED << webpc, webloc, mutex, settled, webResponse, calls >>

\* case MOTOR_OPEN_HOLDING: the hold time test
UpdHoldingTest ==
  /\ rtpc = "upd.holding"
  /\ IF ULongGeq(ULongSub(now, motorStateStartTime), DOOR_HOLD_TIME_MS)
       THEN /\ StepT(Log(Cur, "[MOTOR] Closing door (auto)..."),
                     "motorUpdate.holding", NoArg)
            /\ rtpc' = "upd.holding.moveTo"
       ELSE /\ StepT(Cur, "motorUpdate.holding", NoArg)
            /\ rtpc' = "upd.done"
  /\ UNCHANGED rtloc
  /\ UNCHANGED << webpc, webloc, mutex, settled, webResponse, calls >>

\* case MOTOR_OPEN_HOLDING: motor.moveTo(POS_CLOSED)
UpdHoldingMoveTo ==
  /\ rtpc = "upd.holding.moveTo"
  /\ StepT(moveTo(Cur, POS_CLOSED), "motorUpdate.moveTo", NoArg)
  /\ rtpc' = "upd.holding.state"
  /\ UNCHANGED rtloc
  /\ UNCHANGED << webpc, webloc, mutex, settled, webResponse, calls >>

\* case MOTOR_OPEN_HOLDING: motorState = MOTOR_CLOSING
UpdHoldingState ==
  /\ rtpc = "upd.holding.state"
  /\ StepT([Cur EXCEPT !.motorState = "MOTOR_CLOSING"], "motorUpdate.state", NoArg)
  /\ rtpc' = "upd.done"
  /\ UNCHANGED rtloc
  /\ UNCHANGED << webpc, webloc, mutex, settled, webResponse, calls >>

\* case MOTOR_CLOSING: the distanceToGo() test and the position check
UpdClosingTest ==
  /\ rtpc = "upd.closing"
  /\ IF distanceToGo(Cur) = 0
       THEN /\ StepT(LET c == Log(Cur, "[MOTOR] Door CLOSED")
                     IN  IF c.currentPos # POS_CLOSED
                           THEN [Log(c, "[MOTOR] Warning: Expected POS_CLOSED")
                                   EXCEPT !.failedMoves = @ + 1]
                           ELSE c,
                     "motorUpdate.closing", NoArg)
            /\ rtpc' = "upd.closing.state"
       ELSE /\ StepT(Cur, "motorUpdate.closing", NoArg)
            /\ rtpc' = "upd.done"
  /\ UNCHANGED rtloc
  /\ UNCHANGED << webpc, webloc, mutex, settled, webResponse, calls >>

\* case MOTOR_CLOSING: motorState = MOTOR_IDLE
UpdClosingState ==
  /\ rtpc = "upd.closing.state"
  /\ StepT(Log([Cur EXCEPT !.motorState = "MOTOR_IDLE"],
               "[MOTOR] Ready for next operation"),
           "motorUpdate.state", NoArg)
  /\ rtpc' = "upd.done"
  /\ UNCHANGED rtloc
  /\ UNCHANGED << webpc, webloc, mutex, settled, webResponse, calls >>

\* the command taskWebServer handles in this run
CmdLoc(cmd) == [cmd |-> cmd]

\* POST /api/door/open, motorManualOpen: manualMode = true
OpenFlag ==
  /\ webpc = "idle"
  /\ StepT([Log(Cur, "[MOTOR] Manual OPEN command") EXCEPT !.manualMode = TRUE],
           "motorManualOpen.flag", NoArg)
  /\ webloc' = CmdLoc("open")
  /\ webpc' = "open.test"
  /\ UNCHANGED << rtpc, rtloc, mutex, settled, webResponse, calls >>

\* motorOpenDoor: the busy test
OpenTest ==
  /\ webpc = "open.test"
  /\ IF motorState # "MOTOR_IDLE" /\ motorState # "MOTOR_MANUAL_OPEN"
       THEN /\ StepT(Log(Cur, "[MOTOR] Busy - command ignored"),
                     "motorOpenDoor.test", NoArg)
            /\ webpc' = "cmd.done"
       ELSE /\ StepT(Log(Cur, "[MOTOR] Opening door..."),
                     "motorOpenDoor.test", NoArg)
            /\ webpc' = "open.moveTo"
  /\ UNCHANGED webloc
  /\ UNCHANGED << rtpc, rtloc, mutex, settled, webResponse, calls >>

\* motorOpenDoor: motor.moveTo(POS_OPEN)
OpenMoveTo ==
  /\ webpc = "open.moveTo"
  /\ StepT(moveTo(Cur, POS_OPEN), "motorOpenDoor.moveTo", NoArg)
  /\ webpc' = "open.state"
  /\ UNCHANGED webloc
  /\ UNCHANGED << rtpc, rtloc, mutex, settled, webResponse, calls >>

\* motorOpenDoor: motorState = MOTOR_OPENING
OpenState ==
  /\ webpc = "open.state"
  /\ StepT([Cur EXCEPT !.motorState = "MOTOR_OPENING"], "motorOpenDoor.state", NoArg)
  /\ webpc' = "open.start"
  /\ UNCHANGED webloc
  /\ UNCHANGED << rtpc, rtloc, mutex, settled, webResponse, calls >>

\* motorOpenDoor: motorStateStartTime = millis(); totalMoves++
OpenStart ==
  /\ webpc = "open.start"
  /\ StepT([Cur EXCEPT !.motorStateStartTime = now, !.totalMoves = @ + 1],
           "motorOpenDoor.start", NoArg)
  /\ webpc' = "cmd.done"
  /\ UNCHANGED webloc
  /\ UNCHANGED << rtpc, rtloc, mutex, settled, webResponse, calls >>

\* POST /api/door/close, motorManualClose, motorCloseDoor: the Idle test
CloseTest ==
  /\ webpc = "idle"
  /\ IF motorState = "MOTOR_IDLE"
       THEN /\ StepT(Log(Log(Cur, "[MOTOR] Manual CLOSE command"),
                         "[MOTOR] Already closed"),
                     "motorCloseDoor.test", NoArg)
            /\ webpc' = "cmd.done"
       ELSE /\ StepT(Log(Log(Cur, "[MOTOR] Manual CLOSE command"),
                         "[MOTOR] Closing door (manual)..."),
                     "motorCloseDoor.test", NoArg)
            /\ webpc' = "close.moveTo"
  /\ webloc' = CmdLoc("close")
  /\ UNCHANGED << rtpc, rtloc, mutex, settled, webResponse, calls >>

\* motorCloseDoor: motor.moveTo(POS_CLOSED)
CloseMoveTo ==
  /\ webpc = "close.moveTo"
  /\ StepT(moveTo(Cur, POS_CLOSED), "motorCloseDoor.moveTo", NoArg)
  /\ webpc' = "close.state"
  /\ UNCHANGED webloc
  /\ UNCHANGED << rtpc, rtloc, mutex, settled, webResponse, calls >>

\* motorCloseDoor: motorState = MOTOR_CLOSING
CloseState ==
  /\ webpc = "close.state"
  /\ StepT([Cur EXCEPT !.motorState = "MOTOR_CLOSING"], "motorCloseDoor.state", NoArg)
  /\ webpc' = "close.flag"
  /\ UNCHANGED webloc
  /\ UNCHANGED << rtpc, rtloc, mutex, settled, webResponse, calls >>

\* motorCloseDoor: manualMode = false
CloseFlag ==
  /\ webpc = "close.flag"
  /\ StepT([Cur EXCEPT !.manualMode = FALSE], "motorCloseDoor.flag", NoArg)
  /\ webpc' = "cmd.done"
  /\ UNCHANGED webloc
  /\ UNCHANGED << rtpc, rtloc, mutex, settled, webResponse, calls >>

NextRace ==
  \/ UpdRun
  \/ UpdSwitch
  \/ UpdOpeningTest
  \/ UpdOpeningManual
  \/ UpdOpeningState
  \/ UpdOpeningStart
  \/ UpdHoldingTest
  \/ UpdHoldingMoveTo
  \/ UpdHoldingState
  \/ UpdClosingTest
  \/ UpdClosingState
  \/ OpenFlag
  \/ OpenTest
  \/ OpenMoveTo
  \/ OpenState
  \/ OpenStart
  \/ CloseTest
  \/ CloseMoveTo
  \/ CloseState
  \/ CloseFlag

SpecRace == InitRace /\ [][NextRace]_vars

(***************************************************************************)
(* Properties                                                              *)
(***************************************************************************)
OpenCalls == {"motorOpenDoor", "motorManualOpen", "webHandleDoorOpen"}
CloseCalls == {"motorCloseDoor", "motorManualClose", "webHandleDoorClose"}
ReaderCalls == {"rfidCheckReader1", "rfidCheckReader2"}

Printed(line) == \E k \in 1..Len(serial) : serial[k] = line

\* the occupants in order
BarnList == [k \in 1..barnPopulation |-> barnOccupants[k]]
NoDuplicates(list) ==
  \A i, j \in 1..Len(list) : list[i] = list[j] => i = j

\* C1: an open request (motorOpenDoor or motorManualOpen) made while the door
\* state is Opening, OpenHolding, Closing or Error is rejected as busy: the
\* door state, the motor target and the move counter are what they were
\* before the call.  Only from Idle and ManualOpen is an open accepted.
C1_OpenRejectedWhenBusy ==
  lastOp \in OpenCalls =>
    /\ pre.motorState \in {"MOTOR_OPENING", "MOTOR_OPEN_HOLDING",
                           "MOTOR_CLOSING", "MOTOR_ERROR"}
         => /\ motorState = pre.motorState
            /\ targetPos = pre.targetPos
            /\ totalMoves = pre.totalMoves
            /\ Printed("[MOTOR] Busy - command ignored")
    /\ Printed("[MOTOR] Opening door...")
         => pre.motorState \in {"MOTOR_IDLE", "MOTOR_MANUAL_OPEN"}

C1_Witness ==
  /\ lastOp = "motorOpenDoor"
  /\ pre.motorState = "MOTOR_ERROR"
  /\ motorState = "MOTOR_ERROR"
  /\ Printed("[MOTOR] Busy - command ignored")

\* C2: a manual open request that is rejected as busy changes no controller
\* field: the door state, the target and also the manual flag are what they
\* were before the call.
C2_RejectedManualOpenKeepsFlag ==
  (lastOp = "webHandleDoorOpen" /\ Printed("[MOTOR] Busy - command ignored"))
    => /\ motorState = pre.motorState
       /\ targetPos = pre.targetPos
       /\ manualMode = pre.manualMode

\* C3: an open request accepted from Idle or ManualOpen sets the target to
\* POS_OPEN and the door state to Opening and adds exactly one to the move
\* counter; after a manual request the manual flag is set.
C3_AcceptedOpen ==
  (lastOp \in OpenCalls /\ pre.motorState \in {"MOTOR_IDLE", "MOTOR_MANUAL_OPEN"})
    => /\ targetPos = POS_OPEN
       /\ motorState = "MOTOR_OPENING"
       /\ totalMoves = pre.totalMoves + 1
       /\ (lastOp = "motorManualOpen" => manualMode)

C3_Witness ==
  /\ lastOp = "motorManualOpen"
  /\ pre.motorState = "MOTOR_IDLE"
  /\ pre.targetPos = POS_CLOSED
  /\ ~pre.manualMode
  /\ motorState = "MOTOR_OPENING"
  /\ targetPos = POS_OPEN
  /\ manualMode
  /\ totalMoves = pre.totalMoves + 1

\* C4 as claimed: an open request made while the door state is already
\* Opening takes the acceptance path and is not dropped as a busy conflict.
C4_OpenWhileOpeningAccepted ==
  (lastOp \in OpenCalls /\ pre.motorState = "MOTOR_OPENING")
    => /\ Printed("[MOTOR] Opening door...")
       /\ ~Printed("[MOTOR] Busy - command ignored")
       /\ targetPos = POS_OPEN
       /\ motorState = "MOTOR_OPENING"

\* C4 as amended: an open request made while the door state is already
\* Opening is dropped as a busy conflict and does not take the acceptance
\* path: the door state stays Opening and the move is not counted again.
C4_OpenWhileOpeningDropped ==
  (lastOp \in OpenCalls /\ pre.motorState = "MOTOR_OPENING")
    => /\ Printed("[MOTOR] Busy - command ignored")
       /\ ~Printed("[MOTOR] Opening door...")
       /\ motorState = "MOTOR_OPENING"
       /\ totalMoves = pre.totalMoves

C4_Witness ==
  /\ lastOp = "webHandleDoorOpen"
  /\ pre.motorState = "MOTOR_OPENING"
  /\ pre.targetPos = POS_OPEN
  /\ motorState = "MOTOR_OPENING"
  /\ Printed("[MOTOR] Busy - command ignored")

\* C5: a close request made in any state other than Idle sets the target to
\* POS_CLOSED and the door state to Closing and clears the manual flag; made
\* in Idle it leaves the door state, the target and the manual flag alone.
C5_Close ==
  lastOp \in CloseCalls =>
    IF pre.motorState # "MOTOR_IDLE"
      THEN /\ targetPos = POS_CLOSED
           /\ motorState = "MOTOR_CLOSING"
           /\ manualMode = FALSE
      ELSE /\ motorState = "MOTOR_IDLE"
           /\ targetPos = pre.targetPos
           /\ manualMode = pre.manualMode

C5_Witness ==
  /\ lastOp = "motorManualClose"
  /\ pre.motorState = "MOTOR_MANUAL_OPEN"
  /\ pre.manualMode
  /\ pre.targetPos = POS_OPEN
  /\ motorState = "MOTOR_CLOSING"
  /\ targetPos = POS_CLOSED
  /\ ~manualMode

\* C6: in Opening, motorUpdate changes the door state only when the motor is
\* at its target; it then goes to ManualOpen if the manual flag is set and to
\* OpenHolding otherwise, the hold start being the time of that call.
\* ManualOpen and OpenHolding are entered by no other step.
C6_OpeningCompletes ==
  /\ (lastOp = "motorUpdate" /\ pre.motorState = "MOTOR_OPENING")
       => /\ motorState # "MOTOR_OPENING" => currentPos = targetPos
          /\ currentPos = targetPos =>
               motorState = IF pre.manualMode THEN "MOTOR_MANUAL_OPEN"
                                              ELSE "MOTOR_OPEN_HOLDING"
  /\ motorState = "MOTOR_OPEN_HOLDING"
       => ULongSub(now, motorStateStartTime) = ULong(heldMs)
  /\ (motorState \in {"MOTOR_MANUAL_OPEN", "MOTOR_OPEN_HOLDING"}
        /\ pre.motorState # motorState)
       => lastOp = "motorUpdate" /\ pre.motorState = "MOTOR_OPENING"

C6_Witness ==
  /\ lastOp = "motorUpdate"
  /\ pre.motorState = "MOTOR_OPENING"
  /\ pre.manualMode
  /\ motorState = "MOTOR_MANUAL_OPEN"
  /\ currentPos = POS_OPEN

\* C7: in OpenHolding, motorUpdate leaves the door state and the target alone
\* while less than DOOR_HOLD_TIME_MS has passed since the hold began, and at
\* or past it sets the target to POS_CLOSED and the door state to Closing.
C7_HoldExpires ==
  (lastOp = "motorUpdate" /\ pre.motorState = "MOTOR_OPEN_HOLDING")
    => IF lastArg.held < DOOR_HOLD_TIME_MS
         THEN motorState = "MOTOR_OPEN_HOLDING" /\ targetPos = pre.targetPos
         ELSE motorState = "MOTOR_CLOSING" /\ targetPos = POS_CLOSED

\* the hold ends on a tick exactly DOOR_HOLD_TIME_MS after it began, with
\* millis() having wrapped in between
C7_Witness ==
  /\ lastOp = "motorUpdate"
  /\ pre.motorState = "MOTOR_OPEN_HOLDING"
  /\ lastArg.held >= DOOR_HOLD_TIME_MS
  /\ lastArg.held < DOOR_HOLD_TIME_MS + 2
  /\ motorState = "MOTOR_CLOSING"
  /\ motorStateStartTime.hi = HALF - 1
  /\ now.hi = 0

C9_NeverError == motorState # "MOTOR_ERROR"

\* a door cycle has run: the door is back in Idle after Closing
C9_Witness ==
  /\ lastOp = "motorUpdate"
  /\ pre.motorState = "MOTOR_CLOSING"
  /\ motorState = "MOTOR_IDLE"
  /\ ~manualMode
  /\ totalMoves > 0

\* C10: after any sequence of add and remove calls the occupants are distinct
\* and their number is between 0 and MAX_GOATS_IN_BARN; adding a new name to
\* a full list leaves the list and the count alone.
C10_DistinctAndBounded ==
  /\ Len(barnOccupants) = barnPopulation
  /\ NoDuplicates(BarnList)
  /\ barnPopulation >= 0
  /\ barnPopulation <= MAX_GOATS_IN_BARN
  /\ (/\ lastOp \in {"barnAddGoat", "addGoatToBarn"}
      /\ pre.barnPopulation = MAX_GOATS_IN_BARN
      /\ \A k \in 1..pre.barnPopulation : pre.barnOccupants[k] # lastArg.name)
       => barnOccupants = pre.barnOccupants /\ barnPopulation = pre.barnPopulation

C10_Witness ==
  /\ lastOp = "barnAddGoat"
  /\ pre.barnPopulation = MAX_GOATS_IN_BARN
  /\ lastArg.name = "G11"
  /\ Printed("[BARN] FULL - cannot add more goats!")
  /\ barnPopulation = MAX_GOATS_IN_BARN

\* C11: when a name that is in the list is removed and the next call adds the
\* same name, the list is as long as it was before the remove, the name is its
\* last element, and the other names are in the order they had before.
C11_RemoveThenAddMovesToEnd ==
  (beforeRemove.set
     /\ \E k \in 1..Len(beforeRemove.list) : beforeRemove.list[k] = lastArg.name)
    => LET IsOther(x) == x # lastArg.name
       IN  /\ barnPopulation = Len(beforeRemove.list)
           /\ barnOccupants[barnPopulation] = lastArg.name
           /\ SubSeq(barnOccupants, 1, barnPopulation - 1)
                 = SelectSeq(beforeRemove.list, IsOther)

\* the first of three occupants is removed and added again
C11_Witness ==
  /\ beforeRemove.set
  /\ lastOp = "barnAddGoat"
  /\ lastArg.name = "Bron"
  /\ beforeRemove.list = << "Bron", "TFrance", "BigO" >>
  /\ barnOccupants = << "TFrance", "BigO", "Bron" >>

\* C12: over a run of consecutive polls of a reader that read a card, however
\* long and also when the polls resume after a door cycle, there is exactly
\* one detection (one add or remove) and at most one open request; the run,
\* and with it lastState, ends only with a poll that reads no card.  The
\* occupants change in no call that is not a detection.
C12_OneEventPerPresentRun ==
  /\ \A n \in {1, 2} :
       /\ presentRun[n].events <= 1
       /\ presentRun[n].opens <= presentRun[n].events
       /\ (presentRun[n].events = 1)
            = (IF n = 1 THEN lastCardStateR1 ELSE lastCardStateR2)
  /\ (lastOp \in ReaderCalls /\ lastArg.cardPresent)
       => presentRun[IF lastOp = "rfidCheckReader1" THEN 1 ELSE 2].events = 1
  /\ barnOccupants # pre.barnOccupants
       => lastOp \in ReaderCalls /\ Printed("[RFID] Detected")

\* the card that opened the door is still read when the door is back in
\* Idle: the poll is no new detection and the door stays closed
C12_Witness ==
  /\ lastOp = "rfidCheckReader1"
  /\ lastArg.cardPresent
  /\ presentRun[1] = [events |-> 1, opens |-> 1]
  /\ ~Printed("[RFID] Detected")
  /\ pre.motorState = "MOTOR_IDLE"
  /\ ~pre.manualMode
  /\ totalMoves = 1
  /\ motorState = "MOTOR_IDLE"
  /\ barnOccupants = << "Bron" >>

\* the list after an add of name to list, and after a remove of it
AfterAdd(list, name) ==
  IF \E k \in 1..Len(list) : list[k] = name
    THEN list
    ELSE IF Len(list) < MAX_GOATS_IN_BARN THEN Append(list, name) ELSE list

AfterRemove(list, name) ==
  LET IsOther(x) == x # name
  IN  SelectSeq(list, IsOther)

\* C13: with the door in Idle and no manual hold, a detection on reader 1
\* adds the resolved name to the occupants if it is absent (and the list has
\* room, see C10), a detection on reader 2 removes it if it is present, and
\* in both cases the door goes from Idle to Opening with the target POS_OPEN.
C13_DetectionInIdle ==
  (/\ lastOp \in ReaderCalls
   /\ Printed("[RFID] Detected")
   /\ pre.motorState = "MOTOR_IDLE"
   /\ ~pre.manualMode)
    => /\ motorState = "MOTOR_OPENING"
       /\ targetPos = POS_OPEN
       /\ lastOp = "rfidCheckReader1"
            => barnOccupants = AfterAdd(pre.barnOccupants, lastArg.name)
       /\ lastOp = "rfidCheckReader2"
            => barnOccupants = AfterRemove(pre.barnOccupants, lastArg.name)
       /\ barnPopulation = Len(barnOccupants)

\* [Bron, TFrance] and Bron on reader 2 give [TFrance] and Opening
C13_Witness ==
  /\ lastOp = "rfidCheckReader2"
  /\ lastArg.uid = << 100, 62, 50, 3 >>
  /\ pre.barnOccupants = << "Bron", "TFrance" >>
  /\ pre.motorState = "MOTOR_IDLE"
  /\ ~pre.manualMode
  /\ barnOccupants = << "TFrance" >>
  /\ motorState = "MOTOR_OPENING"

\* no record of knownGoats has the uid's first four bytes, or the uid is
\* shorter than four bytes
NoRecord(uid) ==
  \/ Len(uid) < 4
  \/ \A i \in 1..NUM_KNOWN_GOATS : \E j \in 1..4 : knownGoats[i].uid[j] # uid[j]

\* C14: a detected uid that matches no record, or is shorter than four bytes,
\* is handled under the name UNKNOWN like any other detection: UNKNOWN is
\* added on reader 1 and removed on reader 2, and the door is opened exactly
\* when the manual flag is clear and the controller reports idle.
C14_UnknownTag ==
  (lastOp \in ReaderCalls /\ Printed("[RFID] Detected") /\ NoRecord(lastArg.uid))
    => /\ lastOp = "rfidCheckReader1"
            => barnOccupants = AfterAdd(pre.barnOccupants, "UNKNOWN")
       /\ lastOp = "rfidCheckReader2"
            => barnOccupants = AfterRemove(pre.barnOccupants, "UNKNOWN")
       /\ IF ~pre.manualMode /\ pre.motorState \in {"MOTOR_IDLE", "MOTOR_MANUAL_OPEN"}
            THEN motorState = "MOTOR_OPENING" /\ totalMoves = pre.totalMoves + 1
            ELSE /\ motorState = pre.motorState
                 /\ totalMoves = pre.totalMoves
                 /\ Printed("[RFID] Motor busy or manual mode - ignoring scan")

\* a uid of three bytes on reader 1 of an empty barn
C14_Witness ==
  /\ lastOp = "rfidCheckReader1"
  /\ lastArg.uid = << 100, 62, 50 >>
  /\ pre.barnOccupants = << >>
  /\ pre.motorState = "MOTOR_IDLE"
  /\ barnOccupants = << "UNKNOWN" >>
  /\ motorState = "MOTOR_OPENING"

\* C15: the handlers of POST /api/door/open and POST /api/door/close answer
\* 200 "OK" in every door state, whether the command was taken or dropped; an
\* open posted while the door state is Closing leaves it Closing and is
\* answered 200 "OK" all the same.
C15_DoorPostsAnswerOK ==
  lastOp \in {"webHandleDoorOpen", "webHandleDoorClose"}
    => /\ webResponse = [code |-> 200, type |-> "text/plain", body |-> "OK"]
       /\ (lastOp = "webHandleDoorOpen" /\ pre.motorState = "MOTOR_CLOSING")
            => motorState = "MOTOR_CLOSING" /\ targetPos = pre.targetPos

C15_Witness ==
  /\ lastOp = "webHandleDoorOpen"
  /\ pre.motorState = "MOTOR_CLOSING"
  /\ motorState = "MOTOR_CLOSING"
  /\ Printed("[MOTOR] Busy - command ignored")
  /\ webResponse.code = 200

\* the positions of taskMotorAndRFID between the take and the give of a
\* tracker function
InTracker == {"barnScan", "addWrite", "addCount", "removeShift", "barnGive"}

\* C16: a status read that runs while the other task adds or removes sees the
\* occupants of before or after the whole call.  While webHandleAPI holds the
\* mutex no tracker function is between its take and its give and the list
\* is the one the last tracker call left; the document is built from that
\* list; and the document sent has as many names as its count says, no name
\* twice.
C16_StatusReadIsConsistent ==
  /\ mutex = "web"
       => /\ rtpc \notin InTracker
          /\ barnOccupants = settled
          /\ barnPopulation = Len(settled)
  /\ webpc = "apiGoats"
       => /\ mutex = "web"
          /\ webloc.json.count = Len(settled)
          /\ webloc.json.goats = SubSeq(settled, 1, webloc.i)
  /\ webpc = "apiSend"
       => /\ webloc.json.count = Len(webloc.json.goats)
          /\ NoDuplicates(webloc.json.goats)
  /\ lastOp = "webHandleAPI.send"
       => /\ webResponse.body.count = Len(webResponse.body.goats)
          /\ NoDuplicates(webResponse.body.goats)

\* the document is sent while barnRemoveGoat is in the middle of its shift:
\* it shows the list of before the remove
C16_Witness ==
  /\ lastOp = "webHandleAPI.send"
  /\ webResponse.body.count = 2
  /\ webResponse.body.goats = << "Bron", "TFrance" >>
  /\ rtpc = "removeShift"
  /\ mutex = "rt"
  /\ rtloc.goat = "Bron"
  /\ barnOccupants = << "TFrance", "TFrance" >>

\* C17 as claimed: every step of either task that reads or writes motorState,
\* manualMode or the motor target (motorUpdate, motorIsIdle and the door
\* trigger in taskMotorAndRFID; the door handlers and the status label in
\* taskWebServer) is made with barnDataMutex held by that task, and no
\* response is sent with the mutex held.
C17_MotorFieldsUnderLock ==
  /\ lastOp \in {"motorUpdate", "motorIsIdle", "rfidCheckReader.trigger"}
       => mutex = "rt"
  /\ lastOp \in {"webHandleDoorOpen", "webHandleDoorClose", "webHandleAPI.head"}
       => mutex = "web"
  /\ lastOp \in {"webHandleDoorOpen", "webHandleDoorClose", "webHandleAPI.send"}
       => mutex # "web"

\* the door label of each state
StatusLabel ==
  [ MOTOR_IDLE         |-> "closed",
    MOTOR_OPENING      |-> "opening",
    MOTOR_OPEN_HOLDING |-> "open",
    MOTOR_MANUAL_OPEN  |-> "manual_open",
    MOTOR_CLOSING      |-> "closing",
    MOTOR_ERROR        |-> "error" ]

\* C18: a call of webHandleAPI changes no field of the door controller, not
\* the occupants, their number or the readers' last states, and answers 200
\* with the number of occupants, their names in list order and the label of
\* the door state.
C18_StatusIsReadOnly ==
  [][ lastOp' = "webHandleAPI"
        => /\ UNCHANGED << motorState, motorStateStartTime, manualMode,
                           totalMoves, failedMoves, targetPos, currentPos,
                           lastCardStateR1, lastCardStateR2, barnOccupants,
                           barnPopulation >>
           /\ webResponse'.code = 200
           /\ webResponse'.body.count = Len(barnOccupants)
           /\ webResponse'.body.goats = barnOccupants
           /\ webResponse'.body.doorStatus = StatusLabel[motorState] ]_vars

\* the status of a full barn with the door held open manually
C18_Witness ==
  /\ lastOp = "webHandleAPI"
  /\ motorState = "MOTOR_MANUAL_OPEN"
  /\ barnPopulation = MAX_GOATS_IN_BARN
  /\ webResponse.body.count = MAX_GOATS_IN_BARN
  /\ webResponse.body.goats[MAX_GOATS_IN_BARN] = "G11"
  /\ webResponse.body.doorStatus = "manual_open"

\* the changes of the door state in an automatic cycle
AutoCycle ==
  { << "MOTOR_IDLE", "MOTOR_OPENING" >>,
    << "MOTOR_OPENING", "MOTOR_OPEN_HOLDING" >>,
    << "MOTOR_OPEN_HOLDING", "MOTOR_CLOSING" >>,
    << "MOTOR_CLOSING", "MOTOR_IDLE" >> }

\* C19: when no door command comes from the web task, the door state changes
\* only along Idle, Opening, OpenHolding, Closing, Idle, the manual flag is
\* never set and ManualOpen never entered, and, the task running and the
\* motor stepping, every Opening leads to OpenHolding, every OpenHolding to
\* Closing and every Closing to Idle: the door always returns to Idle.
C19_AutoCycleReturnsToIdle ==
  /\ [][motorState' # motorState
          => << motorState, motorState' >> \in AutoCycle]_vars
  /\ [](~manualMode /\ motorState # "MOTOR_MANUAL_OPEN")
  /\ (motorState = "MOTOR_OPENING") ~> (motorState = "MOTOR_OPEN_HOLDING")
  /\ (motorState = "MOTOR_OPEN_HOLDING") ~> (motorState = "MOTOR_CLOSING")
  /\ (motorState = "MOTOR_CLOSING") ~> (motorState = "MOTOR_IDLE")
  /\ []<>(motorState = "MOTOR_IDLE")

\* the door that TFrance's tag opened is closed again after the hold
C19_Witness ==
  /\ lastOp = "motorUpdate"
  /\ pre.motorState = "MOTOR_CLOSING"
  /\ motorState = "MOTOR_IDLE"
  /\ currentPos = POS_CLOSED
  /\ totalMoves = 1
  /\ barnOccupants = << "TFrance" >>

\* C20: in Closing, motorUpdate changes the door state only when the motor is
\* at its target, and then to Idle; the manual flag is what it was before the
\* call.  After start-up Idle is entered by no other step.
C20_ClosingCompletes ==
  /\ (lastOp = "motorUpdate" /\ pre.motorState = "MOTOR_CLOSING")
       => /\ motorState # "MOTOR_CLOSING" => currentPos = targetPos
          /\ currentPos = targetPos => motorState = "MOTOR_IDLE"
          /\ motorState \in {"MOTOR_CLOSING", "MOTOR_IDLE"}
          /\ manualMode = pre.manualMode
  /\ (motorState = "MOTOR_IDLE" /\ pre.motorState # "MOTOR_IDLE")
       => lastOp = "motorUpdate" /\ pre.motorState = "MOTOR_CLOSING"

\* the door reaches Idle with the manual flag set: the flag was set by an
\* open posted while the door was closing
C20_Witness ==
  /\ lastOp = "motorUpdate"
  /\ pre.motorState = "MOTOR_CLOSING"
  /\ pre.manualMode
  /\ motorState = "MOTOR_IDLE"
  /\ manualMode
  /\ currentPos = POS_CLOSED

\* C21: a detection made while the controller does not report idle (the door
\* state is neither Idle nor ManualOpen) or while the manual flag is set
\* still adds the name on reader 1 and removes it on reader 2, but makes no
\* open request: motorOpenDoor is not called, and the door state, the target,
\* the manual flag and the move counter are what they were.
C21_DetectionWhileBusy ==
  (/\ lastOp \in ReaderCalls
   /\ Printed("[RFID] Detected")
   /\ (pre.motorState \notin {"MOTOR_IDLE", "MOTOR_MANUAL_OPEN"} \/ pre.manualMode))
    => /\ lastOp = "rfidCheckReader1"
            => barnOccupants = AfterAdd(pre.barnOccupants, lastArg.name)
       /\ lastOp = "rfidCheckReader2"
            => barnOccupants = AfterRemove(pre.barnOccupants, lastArg.name)
       /\ barnPopulation = Len(barnOccupants)
       /\ Printed("[RFID] Motor busy or manual mode - ignoring scan")
       /\ ~Printed("[MOTOR] Opening door...")
       /\ ~Printed("[MOTOR] Busy - command ignored")
       /\ motorState = pre.motorState
       /\ targetPos = pre.targetPos
       /\ manualMode = pre.manualMode
       /\ totalMoves = pre.totalMoves

\* TFrance leaves by reader 2 while the door is opening
C21_Witness ==
  /\ lastOp = "rfidCheckReader2"
  /\ lastArg.name = "TFrance"
  /\ pre.motorState = "MOTOR_OPENING"
  /\ ~pre.manualMode
  /\ pre.barnOccupants = << "Bron", "TFrance", "BigO" >>
  /\ barnOccupants = << "Bron", "BigO" >>
  /\ motorState = "MOTOR_OPENING"
  /\ Printed("[RFID] Motor busy or manual mode - ignoring scan")

\* C22 as claimed: every poll of a reader is made with the door state Idle or
\* ManualOpen, and the occupants never change in a call made with the door
\* state Opening, OpenHolding or Closing.
C22_PollsOnlyWhenIdle ==
  /\ lastOp \in ReaderCalls
       => pre.motorState \in {"MOTOR_IDLE", "MOTOR_MANUAL_OPEN"}
  /\ barnOccupants # pre.barnOccupants
       => pre.motorState \in {"MOTOR_IDLE", "MOTOR_MANUAL_OPEN"}

\* C23: a remove of a name that is in the list takes out that entry and no
\* other, lowers the count by one and leaves the remaining names in the
\* order they had; a remove of a name that is not in the list leaves the
\* list and the count alone.
C23_Remove ==
  lastOp \in {"barnRemoveGoat", "removeGoatFromBarn"}
    => IF \E k \in 1..Len(pre.barnOccupants) : pre.barnOccupants[k] = lastArg.name
         THEN /\ barnPopulation = pre.barnPopulation - 1
              /\ Len(barnOccupants) = Len(pre.barnOccupants) - 1
              /\ barnOccupants = AfterRemove(pre.barnOccupants, lastArg.name)
         ELSE /\ barnPopulation = pre.barnPopulation
              /\ barnOccupants = pre.barnOccupants

\* the second of four occupants is removed
C23_Witness ==
  /\ lastOp = "barnRemoveGoat"
  /\ lastArg.name = "TFrance"
  /\ pre.barnOccupants = << "Bron", "TFrance", "BigO", "UNKNOWN" >>
  /\ barnOccupants = << "Bron", "BigO", "UNKNOWN" >>
  /\ barnPopulation = 3
  /\ Printed("[BARN] EXITED")

\* C24: when motorUpdate finds a move complete (Opening or Closing, nothing
\* left to go), it adds exactly one to failedMoves if the position is not the
\* one the move was for (POS_OPEN, POS_CLOSED) and leaves failedMoves alone
\* if it is; the door state changes as after a good move either way.
\* failedMoves never decreases.
C24_FailedMoves ==
  /\ failedMoves >= pre.failedMoves
  /\ (/\ lastOp = "motorUpdate"
      /\ pre.motorState \in {"MOTOR_OPENING", "MOTOR_CLOSING"}
      /\ currentPos = targetPos)
       => IF pre.motorState = "MOTOR_OPENING"
            THEN /\ failedMoves = pre.failedMoves
                                    + (IF currentPos # POS_OPEN THEN 1 ELSE 0)
                 /\ motorState = IF pre.manualMode THEN "MOTOR_MANUAL_OPEN"
                                                   ELSE "MOTOR_OPEN_HOLDING"
            ELSE /\ failedMoves = pre.failedMoves
                                    + (IF currentPos # POS_CLOSED THEN 1 ELSE 0)
                 /\ motorState = "MOTOR_IDLE"

\* an opening move that ends at POS_CLOSED: counted as failed, and the door
\* state goes on to OpenHolding
C24_Witness ==
  /\ lastOp = "motorUpdate"
  /\ pre.motorState = "MOTOR_OPENING"
  /\ ~pre.manualMode
  /\ currentPos = POS_CLOSED
  /\ targetPos = POS_CLOSED
  /\ failedMoves = pre.failedMoves + 1
  /\ motorState = "MOTOR_OPEN_HOLDING"
  /\ Printed("[MOTOR] Warning: Expected POS_OPEN")

\* C25 as claimed: the manual flag is set only while the door state is
\* Opening or ManualOpen, so that a detection made with the door state Idle
\* is never ignored and opens the door.
C25_ManualFlagOnlyWhileOpen ==
  /\ manualMode => motorState \in {"MOTOR_OPENING", "MOTOR_MANUAL_OPEN"}
  /\ (/\ lastOp \in ReaderCalls
      /\ Printed("[RFID] Detected")
      /\ pre.motorState = "MOTOR_IDLE")
       => /\ ~Printed("[RFID] Motor busy or manual mode - ignoring scan")
          /\ motorState = "MOTOR_OPENING"

\* the controller's fields of a state
MotorFields(s) ==
  [ motorState |-> s.motorState, motorStateStartTime |-> s.motorStateStartTime,
    manualMode |-> s.manualMode, totalMoves |-> s.totalMoves,
    failedMoves |-> s.failedMoves, targetPos |-> s.targetPos,
    currentPos |-> s.currentPos ]

\* the command of the run as a whole call
Command(s, t) ==
  IF webloc.cmd = "open" THEN webHandleDoorOpen(s, t) ELSE webHandleDoorClose(s, t)

\* the run is over: motorUpdate() and the door command have both returned
RaceOver == rtpc = "upd.done" /\ webpc = "cmd.done"

\* the door is held open while the motor's target is the closed position
CloseOverwritten ==
  /\ motorState \in {"MOTOR_MANUAL_OPEN", "MOTOR_OPEN_HOLDING"}
  /\ targetPos = POS_CLOSED

\* C26: under every interleaving of a door command of the web task with one
\* motorUpdate() of the real-time task, once both have returned the
\* controller's fields are those that the two calls made one after the other,
\* in one of the two orders, produce, and the state is never ManualOpen or
\* OpenHolding while the target is CLOSED.
C26_RaceIsSerializable ==
  RaceOver =>
    /\ \E d \in {0, RunStep} :
         MotorFields(Cur) \in
           { MotorFields(Command(motorUpdate(raceStart, now, d), now)),
             MotorFields(motorUpdate(Command(raceStart, now), now, d)) }
    /\ ~ CloseOverwritten

\* C27: with every controller operation one atomic step, the motor's target
\* is CLOSED (0) or OPEN (1400) and its position lies between the two,
\* inclusive; in Idle the position is CLOSED, and in OpenHolding and in
\* ManualOpen the position is OPEN.
C27_TargetAndPosition ==
  /\ targetPos \in {POS_CLOSED, POS_OPEN}
  /\ POS_CLOSED <= currentPos /\ currentPos <= POS_OPEN
  /\ motorState = "MOTOR_IDLE" => currentPos = POS_CLOSED
  /\ motorState \in {"MOTOR_OPEN_HOLDING", "MOTOR_MANUAL_OPEN"}
       => currentPos = POS_OPEN

\* motorUpdate() has ended a closing move: the door is Idle at CLOSED
C27_Witness ==
  /\ lastOp = "motorUpdate"
  /\ pre.motorState = "MOTOR_CLOSING"
  /\ motorState = "MOTOR_IDLE"
  /\ currentPos = POS_CLOSED
  /\ totalMoves > 0

====
